---- MODULE Spec2Model ----
(***************************************************************************)
(* Real-estate chatbot front-end: the page controller (App), the query     *)
(* input (ChatInput), the chart transformation (PriceChart) and the table  *)
(* (DataTable).                                                            *)
(*                                                                         *)
(* JavaScript strings that the code inspects character by character (the   *)
(* text field, the query) are sequences of one-character strings.          *)
(* A nullable JavaScript value is a sequence of length 0 (null/undefined)  *)
(* or 1 (the value).                                                       *)
(***************************************************************************)
EXTENDS Integers, Sequences, FiniteSets, TLC

\* Longest text typed into the field.
MaxLen == 2
\* Most requests awaiting their response at once.
MaxInFlight == 2

Null == <<>>
Some(x) == <<x>>
IsNull(v) == v = <<>>

-----------------------------------------------------------------------------
(* ChatInput *)

Space == " "
Chars == {Space, "a"}
Texts == UNION {[1..k -> Chars] : k \in 0..MaxLen}

RECURSIVE TrimStart(_)
TrimStart(s) ==
  IF s # <<>> /\ Head(s) = Space THEN TrimStart(Tail(s)) ELSE s

RECURSIVE TrimEnd(_)
TrimEnd(s) ==
  IF s # <<>> /\ s[Len(s)] = Space THEN TrimEnd(SubSeq(s, 1, Len(s) - 1)) ELSE s

\* String.prototype.trim
Trim(s) == TrimEnd(TrimStart(s))

-----------------------------------------------------------------------------
(* PriceChart *)

\* Most records in a chart list.
MaxRecords == 3

\* JavaScript values, tagged with their typeof.
Num(n) == [t |-> "number", n |-> n, s |-> ""]
Str(x) == [t |-> "string", n |-> 0, s |-> x]
JsNull == [t |-> "object", n |-> 0, s |-> "null"]
Undefined == [t |-> "undefined", n |-> 0, s |-> ""]

\* Boolean(v)
TruthyValue(v) ==
  IF v.t = "number" THEN v.n # 0
  ELSE IF v.t = "string" THEN v.s # ""
  ELSE FALSE

\* The property key a value is converted to.
PropertyKey(v) ==
  IF v.t = "string" THEN v.s
  ELSE IF v.t = "number" THEN ToString(v.n)
  ELSE IF v.t = "undefined" THEN "undefined"
  ELSE "null"

\* A chart record is the sequence of its fields <<key, value>>, in the order
\* Object.values lists them.
Field(k, v) == <<k, v>>
Has(d, k) == \E i \in DOMAIN d : d[i][1] = k
\* d[k]
Get(d, k) ==
  IF Has(d, k) THEN d[CHOOSE i \in DOMAIN d : d[i][1] = k][2] ELSE Undefined

PriceField == "__price_computed__"

Opt(k, choice) == IF choice = <<>> THEN <<>> ELSE << Field(k, choice[1]) >>

Years == {2021, 2022}
Areas == {"Wakad", "Akurdi"}

\* Records of a comparison response: a year, mostly an area, mostly a price.
ComparisonRecords ==
  { << Field("year", Num(y)) >> \o Opt("area", a) \o Opt(PriceField, p) :
      y \in Years,
      a \in {<<>>} \cup {<< Str(x) >> : x \in Areas},
      p \in {<<>>, << Num(5000) >>, << Num(4800) >>} }

\* Records of a single-area response: a year, other numeric columns, and a
\* price that may be missing or null.
SingleRecords ==
  { << Field("year", Num(y)) >> \o Opt("rate", r) \o Opt("avg", v) \o Opt(PriceField, p) :
      y \in Years,
      r \in {<<>>, << Num(2021) >>, << Num(4400) >>},
      v \in {<<>>, << Num(4800) >>},
      p \in {<<>>, << JsNull >>, << Num(4000) >>} }

ChartRecords == ComparisonRecords \cup SingleRecords
ChartInputs == UNION {[1..k -> ChartRecords] : k \in 1..MaxRecords}

\* data.some(d => d.area)
isComparison(data) == \E i \in DOMAIN data : TruthyValue(Get(data[i], "area"))

\* yearMap after the forEach has visited the first n records. Its keys are
\* the years (as numbers; the object keys are their decimal strings).
RECURSIVE yearMap(_, _)
yearMap(data, n) ==
  IF n = 0 THEN [k \in {} |-> <<>>]
  ELSE LET m == yearMap(data, n - 1)
           d == data[n]
           year == Get(d, "year").n
           row == IF year \in DOMAIN m THEN m[year] ELSE ("year" :> Get(d, "year"))
       IN (year :> ((PropertyKey(Get(d, "area")) :> Get(d, PriceField)) @@ row)) @@ m

\* Object.values of an object whose keys are array indices: ascending key order.
RECURSIVE ObjectValues(_)
ObjectValues(m) ==
  IF DOMAIN m = {} THEN <<>>
  ELSE LET k == CHOOSE x \in DOMAIN m : \A y \in DOMAIN m : x <= y
       IN << m[k] >> \o ObjectValues([x \in DOMAIN m \ {k} |-> m[x]])

\* Insert a row into rows sorted by (a, b) => a.year - b.year, after its equals.
RECURSIVE InsertByYear(_, _)
InsertByYear(row, rows) ==
  IF rows = <<>> THEN << row >>
  ELSE IF row["year"].n - Head(rows)["year"].n < 0 THEN << row >> \o rows
  ELSE << Head(rows) >> \o InsertByYear(row, Tail(rows))

\* rows.sort((a, b) => a.year - b.year), a stable sort
RECURSIVE SortByYear(_)
SortByYear(rows) ==
  IF rows = <<>> THEN <<>>
  ELSE InsertByYear(rows[Len(rows)], SortByYear(SubSeq(rows, 1, Len(rows) - 1)))

\* [...new Set(values)]: the distinct values in first-seen order
RECURSIVE Distinct(_)
Distinct(values) ==
  IF values = <<>> THEN <<>>
  ELSE LET front == Distinct(SubSeq(values, 1, Len(values) - 1))
           v == values[Len(values)]
       IN IF \E i \in DOMAIN front : front[i] = v THEN front ELSE Append(front, v)

\* Object.values(d).find(v => typeof v === 'number' && v !== d.year)
FirstNumberNotYear(d) ==
  LET hits == {i \in DOMAIN d : d[i][2].t = "number" /\ d[i][2] # Get(d, "year")}
  IN IF hits = {} THEN Undefined
     ELSE d[CHOOSE i \in hits : \A j \in hits : i <= j][2]

singlePrice(d) ==
  IF Get(d, PriceField) # Undefined /\ Get(d, PriceField) # JsNull
    THEN Get(d, PriceField)
    ELSE FirstNumberNotYear(d)

\* What PriceChart hands to the line chart: the rows and, in comparison mode,
\* the data keys of the lines.
PriceChart(data) ==
  IF isComparison(data)
    THEN [mode |-> "comparison",
          chartData |-> SortByYear(ObjectValues(yearMap(data, Len(data)))),
          areas |-> Distinct([i \in DOMAIN data |-> Get(data[i], "area")])]
    ELSE [mode |-> "single",
          chartData |-> [i \in DOMAIN data |->
                           ("year" :> Get(data[i], "year")) @@ ("price" :> singlePrice(data[i]))],
          areas |-> <<>>]

NotRendered == [mode |-> "none", chartData |-> <<>>, areas |-> <<>>]

-----------------------------------------------------------------------------
(* DataTable *)

\* Most records in a table list.
MaxRows == 2

\* Column keys, as character sequences.
FinalLocationKey == <<"f","i","n","a","l"," ","l","o","c","a","t","i","o","n">>
YearKey == <<"y","e","a","r">>
CityKey == <<"c","i","t","y">>
PriceKey == <<"_","_","p","r","i","c","e","_","c","o","m","p","u","t","e","d","_","_">>
AreaKey == <<"a","r","e","a">>

\* ['final location', 'year', 'city', '__price_computed__']
Whitelist == << FinalLocationKey, YearKey, CityKey, PriceKey >>

\* Table records: the backend lists the columns in its own order; a value may
\* be missing or null, and a record may carry a column outside the whitelist.
TableRecords ==
  { Opt(AreaKey, a) \o Opt(PriceKey, p) \o Opt(CityKey, c) \o Opt(YearKey, y)
      \o Opt(FinalLocationKey, f) :
      a \in {<<>>, << Str("Wakad") >>},
      p \in {<<>>, << JsNull >>, << Num(5000) >>},
      c \in {<<>>, << JsNull >>, << Str("Pune") >>},
      y \in {<<>>, << Num(2021) >>},
      f \in {<<>>, << Str("Wakad") >>} }

TableInputs == UNION {[1..k -> TableRecords] : k \in 1..MaxRows}

\* s.replace(/__/g, ''): every "__", matched from the left
RECURSIVE StripDoubleUnderscore(_)
StripDoubleUnderscore(s) ==
  IF s = <<>> THEN <<>>
  ELSE IF Len(s) >= 2 /\ s[1] = "_" /\ s[2] = "_"
    THEN StripDoubleUnderscore(SubSeq(s, 3, Len(s)))
  ELSE << s[1] >> \o StripDoubleUnderscore(Tail(s))

\* s.replace(/_/g, ' ')
UnderscoresToSpaces(s) == [i \in DOMAIN s |-> IF s[i] = "_" THEN " " ELSE s[i]]

LowerCase ==
  <<"a","b","c","d","e","f","g","h","i","j","k","l","m",
    "n","o","p","q","r","s","t","u","v","w","x","y","z">>
UpperCase ==
  <<"A","B","C","D","E","F","G","H","I","J","K","L","M",
    "N","O","P","Q","R","S","T","U","V","W","X","Y","Z">>

\* s.toUpperCase()
ToUpperCase(s) ==
  [i \in DOMAIN s |->
     IF \E j \in DOMAIN LowerCase : LowerCase[j] = s[i]
       THEN UpperCase[CHOOSE j \in DOMAIN LowerCase : LowerCase[j] = s[i]]
       ELSE s[i]]

\* The text of a column's header cell.
headerLabel(k) == ToUpperCase(UnderscoresToSpaces(StripDoubleUnderscore(k)))

\* String(v ?? '')
cellText(v) ==
  IF v = Undefined \/ v = JsNull THEN ""
  ELSE IF v.t = "number" THEN ToString(v.n)
  ELSE v.s

\* Mutation: a column is kept when any record has the key.
tableKeysOfAnyRow(rows) ==
  SelectSeq(Whitelist, LAMBDA k : \E r \in DOMAIN rows : Has(rows[r], k))

\* [...].filter(k => k in rows[0])
tableKeys(rows) == SelectSeq(Whitelist, LAMBDA k : Has(rows[1], k))

NoTable == [keys |-> <<>>, headers |-> <<>>, body |-> <<>>]

\* What DataTable renders: the header cells and the body cells, row by row.
DataTable(rows) ==
  IF rows = <<>> THEN NoTable
  ELSE LET keys == tableKeys(rows)
       IN [keys |-> keys,
           headers |-> [c \in DOMAIN keys |-> headerLabel(keys[c])],
           body |-> [r \in DOMAIN rows |->
                       [c \in DOMAIN keys |-> cellText(Get(rows[r], keys[c]))]]]

-----------------------------------------------------------------------------
(* App *)

ExampleQueries ==
  << <<"W","a","k","a","d">>,
     <<"C","o","m","p","a","r","e"," ","W","a","k","a","d"," ","a","n","d"," ",
       "A","k","u","r","d","i">>,
     <<"S","h","o","w"," ","A","u","n","d","h"," ","g","r","o","w","t","h"," ",
       "o","v","e","r"," ","3"," ","y","e","a","r","s">> >>

ApiErrorFallback == "API error"
NetworkErrorFallback == "Network error"

\* Messages of the errors the awaited calls throw.
SyntaxErrorMessage == "Unexpected token < in JSON at position 0"
TypeErrorMessage == "Cannot read properties of null (reading 'error')"
FetchErrorMessages == {"Failed to fetch", ""}

\* Response bodies. kind "object" is a JSON object whose error field is absent
\* (Null) or a string; kind "null" is the JSON text null; kind "unparsable" is
\* a body res.json() rejects.
Unparsable == [kind |-> "unparsable", error |-> Null, about |-> <<>>]
JsonNull == [kind |-> "null", error |-> Null, about |-> <<>>]
Analysis(q) == [kind |-> "object", error |-> Null, about |-> q]
ErrorBody(e) == [kind |-> "object", error |-> e, about |-> <<>>]

OkBodies(q) == {Analysis(q), JsonNull, Unparsable}
NotOkBodies == {ErrorBody(Some("area not found")), ErrorBody(Some("")),
                ErrorBody(Null), JsonNull, Unparsable}

Resolved(ok, body) == [settled |-> "resolved", ok |-> ok, body |-> body, message |-> ""]
Rejected(m) == [settled |-> "rejected", ok |-> FALSE, body |-> JsonNull, message |-> m]
NoResponse == [settled |-> "none", ok |-> FALSE, body |-> JsonNull, message |-> ""]

VARIABLES
  value,      \* ChatInput: the text field
  data,       \* App: Null or Some(json)
  loading,    \* App
  error,      \* App: Null or Some(message)
  inflight,   \* queries whose fetch has not settled, in issue order
  last,       \* history: the handler that ran last, the request state and the
              \* field text it ran in, what it passed to onQuery, the response it got
  raced       \* history: a query was issued while another was in flight, and
              \* requests have been in flight ever since

\* The chart component, rendered on its own.
VARIABLES
  chart,      \* PriceChart: the data prop
  rendered    \* PriceChart: what it rendered

\* The table component, rendered on its own.
VARIABLES
  tableRows,  \* DataTable: the rows prop
  table,      \* DataTable: what it rendered
  tableDone   \* DataTable has rendered

appVars == <<value, data, loading, error, inflight, last, raced>>
chartVars == <<chart, rendered>>
tableVars == <<tableRows, table, tableDone>>
vars == <<value, data, loading, error, inflight, last, raced, chart, rendered,
          tableRows, table, tableDone>>

\* The request state the three fields of App stand for.
Phase ==
  IF loading THEN (IF IsNull(data) /\ IsNull(error) THEN "Loading" ELSE "Mixed")
  ELSE IF IsNull(data) /\ IsNull(error) THEN "Idle"
  ELSE IF IsNull(error) THEN "Success"
  ELSE IF IsNull(data) THEN "Error"
  ELSE "Mixed"

Did(ev, invoked, response) ==
  [ev |-> ev, from |-> Phase, text |-> value, invoked |-> invoked, response |-> response]

\* JavaScript truthiness of a nullable string.
Truthy(v) == ~IsNull(v) /\ v[1] # ""

\* Mutation: the field stays enabled while loading.
fieldNeverDisabled == FALSE

fieldDisabled == loading
buttonDisabled == loading \/ Trim(value) = <<>>
examplesShown == IsNull(data) /\ ~loading /\ IsNull(error)
errorBannerShown == ~IsNull(error)
resultsShown == ~IsNull(data) /\ ~loading

Init ==
  /\ value = <<>>
  /\ data = Null
  /\ loading = FALSE
  /\ error = Null
  /\ inflight = <<>>
  /\ last = Did("init", <<>>, NoResponse)
  /\ raced = FALSE
  /\ chart = <<>>
  /\ rendered = NotRendered
  /\ tableRows = <<>>
  /\ table = NoTable
  /\ tableDone = FALSE

\* handleQuery up to its first await.
HandleQueryStart(area) ==
  /\ Len(inflight) < MaxInFlight
  /\ error' = Null
  /\ loading' = TRUE
  /\ data' = Null
  /\ inflight' = Append(inflight, area)
  /\ raced' = (inflight # <<>>)

\* The message handleQuery's catch block receives, Null when nothing is thrown.
Thrown(res) ==
  IF res.settled = "rejected" THEN Some(res.message)
  ELSE IF res.body.kind = "unparsable" THEN Some(SyntaxErrorMessage)
  ELSE IF ~res.ok /\ res.body.kind = "null" THEN Some(TypeErrorMessage)
  ELSE Null

\* a || b on strings
OrElse(a, b) == IF Truthy(a) THEN a[1] ELSE b

\* Mutation: the not-ok branch reports the fallback whatever the payload says.
HandleQuerySettleIgnoringPayload(res) ==
  /\ IF ~IsNull(Thrown(res))
       THEN error' = Some(OrElse(Thrown(res), NetworkErrorFallback)) /\ data' = data
     ELSE IF ~res.ok
       THEN error' = Some(ApiErrorFallback) /\ data' = data
     ELSE data' = (IF res.body.kind = "null" THEN Null ELSE Some(res.body))
          /\ error' = error
  /\ loading' = FALSE

\* handleQuery from the settling of its fetch to its end.
HandleQuerySettle(res) ==
  /\ IF ~IsNull(Thrown(res))
       THEN error' = Some(OrElse(Thrown(res), NetworkErrorFallback)) /\ data' = data
     ELSE IF ~res.ok
       THEN error' = Some(OrElse(res.body.error, ApiErrorFallback)) /\ data' = data
     ELSE data' = (IF res.body.kind = "null" THEN Null ELSE Some(res.body))
          /\ error' = error
  /\ loading' = FALSE

\* Mutation: the reset forgets the loading flag.
handleHomeClickKeepingLoading ==
  /\ data' = Null
  /\ error' = Null
  /\ loading' = loading

handleHomeClick ==
  /\ data' = Null
  /\ error' = Null
  /\ loading' = FALSE

\* Mutation: submit tests and passes the untrimmed text.
submitUntrimmed(ev) ==
  LET q == value IN
  IF q = <<>>
    THEN /\ UNCHANGED <<value, data, loading, error, inflight, raced>>
         /\ last' = Did(ev, <<>>, NoResponse)
    ELSE /\ HandleQueryStart(q)
         /\ value' = <<>>
         /\ last' = Did(ev, <<q>>, NoResponse)

\* ChatInput.submit
submit(ev) ==
  LET q == Trim(value) IN
  IF q = <<>>
    THEN /\ UNCHANGED <<value, data, loading, error, inflight, raced>>
         /\ last' = Did(ev, <<>>, NoResponse)
    ELSE /\ HandleQueryStart(q)
         /\ value' = <<>>
         /\ last' = Did(ev, <<q>>, NoResponse)

Remove(s, i) == SubSeq(s, 1, i - 1) \o SubSeq(s, i + 1, Len(s))

-----------------------------------------------------------------------------
(* Events *)

Change(v) ==
  /\ ~fieldDisabled
  /\ v # value
  /\ value' = v
  /\ last' = Did("change", <<>>, NoResponse)
  /\ UNCHANGED <<data, loading, error, inflight, raced>>
  /\ UNCHANGED chartVars
  /\ UNCHANGED tableVars

PressEnter ==
  /\ ~fieldDisabled
  /\ submit("enter")
  /\ UNCHANGED chartVars
  /\ UNCHANGED tableVars

ClickAnalyze ==
  /\ ~buttonDisabled
  /\ submit("button")
  /\ UNCHANGED chartVars
  /\ UNCHANGED tableVars

ClickExample(i) ==
  /\ examplesShown
  /\ HandleQueryStart(ExampleQueries[i])
  /\ last' = Did("example", <<ExampleQueries[i]>>, NoResponse)
  /\ UNCHANGED value
  /\ UNCHANGED chartVars
  /\ UNCHANGED tableVars

ClickHome ==
  /\ handleHomeClick
  /\ last' = Did("home", <<>>, NoResponse)
  /\ UNCHANGED <<value, inflight, raced>>
  /\ UNCHANGED chartVars
  /\ UNCHANGED tableVars

Settle(i, res) ==
  /\ HandleQuerySettle(res)
  /\ inflight' = Remove(inflight, i)
  /\ last' = Did("settle", <<>>, res)
  /\ UNCHANGED <<value, raced>>
  /\ UNCHANGED chartVars
  /\ UNCHANGED tableVars

ResponseOk ==
  \E i \in DOMAIN inflight : \E b \in OkBodies(inflight[i]) :
    Settle(i, Resolved(TRUE, b))

ResponseNotOk ==
  \E i \in DOMAIN inflight : \E b \in NotOkBodies :
    Settle(i, Resolved(FALSE, b))

NetworkFailure ==
  \E i \in DOMAIN inflight : \E m \in FetchErrorMessages :
    Settle(i, Rejected(m))

Next ==
  \/ \E v \in Texts : Change(v)
  \/ PressEnter
  \/ ClickAnalyze
  \/ \E i \in DOMAIN ExampleQueries : ClickExample(i)
  \/ ClickHome
  \/ ResponseOk
  \/ ResponseNotOk
  \/ NetworkFailure

Spec == Init /\ [][Next]_vars

-----------------------------------------------------------------------------
(* The chart on its own: any chart list, rendered once *)

ChartInit ==
  /\ value = <<>>
  /\ data = Null
  /\ loading = FALSE
  /\ error = Null
  /\ inflight = <<>>
  /\ last = Did("init", <<>>, NoResponse)
  /\ raced = FALSE
  /\ chart \in ChartInputs
  /\ rendered = NotRendered
  /\ tableRows = <<>>
  /\ table = NoTable
  /\ tableDone = FALSE

RenderChart ==
  /\ rendered = NotRendered
  /\ rendered' = PriceChart(chart)
  /\ UNCHANGED chart
  /\ UNCHANGED appVars
  /\ UNCHANGED tableVars

ChartNext == RenderChart

ChartSpec == ChartInit /\ [][ChartNext]_vars

-----------------------------------------------------------------------------
(* The table on its own: any table list, rendered once *)

TableInit ==
  /\ value = <<>>
  /\ data = Null
  /\ loading = FALSE
  /\ error = Null
  /\ inflight = <<>>
  /\ last = Did("init", <<>>, NoResponse)
  /\ raced = FALSE
  /\ chart = <<>>
  /\ rendered = NotRendered
  /\ tableRows \in TableInputs
  /\ table = NoTable
  /\ tableDone = FALSE

RenderTable ==
  /\ ~tableDone
  /\ table' = DataTable(tableRows)
  /\ tableDone' = TRUE
  /\ UNCHANGED tableRows
  /\ UNCHANGED appVars
  /\ UNCHANGED chartVars

TableNext == RenderTable

TableSpec == TableInit /\ [][TableNext]_vars

-----------------------------------------------------------------------------
(* The request state *)

B2N(b) == IF b THEN 1 ELSE 0

\* C1: in every reachable state the controller is in exactly one of Idle,
\* Loading, Success, Error: at most one of loading, data non-null and error
\* non-null holds, so results are never shown together with the error banner.
RequestStateExclusive ==
  B2N(loading) + B2N(~IsNull(data)) + B2N(~IsNull(error)) <= 1

\* C2: at most one analyze request is in flight, and while one is in flight
\* loading is true, so that the field, the button and the examples are off.
SingleRequestInFlight ==
  /\ Len(inflight) <= 1
  /\ inflight # <<>> => (loading /\ fieldDisabled /\ buttonDisabled /\ ~examplesShown)

\* The request state a response leaves when it alone decides it.
OutcomeOf(res) ==
  IF ~IsNull(Thrown(res))
    THEN [data |-> Null, error |-> Some(OrElse(Thrown(res), NetworkErrorFallback))]
  ELSE IF ~res.ok
    THEN [data |-> Null, error |-> Some(OrElse(res.body.error, ApiErrorFallback))]
  ELSE [data |-> IF res.body.kind = "null" THEN Null ELSE Some(res.body),
        error |-> Null]

LastSettled == last.ev = "settle" /\ inflight = <<>>

\* C3: when a query was issued while another was in flight, the state after
\* all of them have completed is the outcome (Success data or Error message)
\* of the request that completed last.
LastWriterWins ==
  (LastSettled /\ raced) =>
     /\ ~loading
     /\ [data |-> data, error |-> error] = OutcomeOf(last.response)

\* C4: the home-navigation action, taken in any state, leaves the controller
\* Idle: data null, error null, loading false.
HomeResetsToIdle ==
  last.ev = "home" => (IsNull(data) /\ IsNull(error) /\ ~loading /\ Phase = "Idle")

HomeFromLoading == last.ev = "home" /\ last.from = "Loading" /\ Phase = "Idle"

GenericFallbacks == {ApiErrorFallback, NetworkErrorFallback}

NotOkSettled ==
  LastSettled /\ last.response.settled = "resolved" /\ ~last.response.ok

NotOkMessage(b) ==
  IF b.kind = "unparsable" THEN SyntaxErrorMessage
  ELSE IF b.kind = "null" THEN TypeErrorMessage
  ELSE IF ~IsNull(b.error) /\ b.error[1] # "" THEN b.error[1]
  ELSE ApiErrorFallback

NetworkFailureEndsInError ==
  (LastSettled /\ (last.response.settled = "rejected"
                     \/ last.response.body.kind = "unparsable")) =>
    LET own == IF last.response.settled = "rejected"
                 THEN last.response.message ELSE SyntaxErrorMessage IN
    /\ ~loading
    /\ IsNull(data)
    /\ error = Some(IF own # "" THEN own ELSE NetworkErrorFallback)
    /\ error[1] # ""

\* C7: a submit of the query input invokes the query callback if and only if
\* the trimmed text is non-empty: then exactly once, with the trimmed text,
\* and the field is cleared; otherwise the submit changes nothing.
SubmitInvokesIffNonEmpty ==
  [][ last'.ev \in {"enter", "button"} =>
        LET q == Trim(value) IN
        IF q # <<>>
          THEN /\ last'.invoked = <<q>>
               /\ inflight' = Append(inflight, q)
               /\ value' = <<>>
          ELSE /\ last'.invoked = <<>>
               /\ UNCHANGED <<value, data, loading, error, inflight>> ]_vars

SubmittedTrimmed ==
  /\ last.ev = "enter"
  /\ last.text = <<Space, "a">>
  /\ last.invoked = << <<"a">> >>
  /\ value = <<>>
  /\ loading

\* C8: while loading is true the field and the button are disabled, and no
\* event invokes the query callback, whatever text the field holds.
NoSubmitWhileLoading ==
  [][ loading =>
        /\ fieldDisabled /\ buttonDisabled
        /\ last'.invoked = <<>>
        /\ \A i \in DOMAIN inflight' : i <= Len(inflight) ]_vars

LoadingWithTextInField ==
  loading /\ Trim(value) # <<>> /\ last.ev = "example" /\ fieldDisabled

-----------------------------------------------------------------------------
(* The chart transformation *)

CarriesArea(d) == Has(d, "area")

RowsOf(year, area) ==
  {i \in DOMAIN chart : Get(chart[i], "year") = year /\ CarriesArea(chart[i])
                          /\ Get(chart[i], "area") = area}

\* C9: for a non-empty chart list in which some record carries an area,
\* comparison mode is selected and the output is one row per distinct year,
\* ascending by year, each row holding the year and, for each area with a
\* record for that year, a field named after the area with that record's
\* computed price; an area without a record for the year is absent from the
\* row, and the row has no other field.
ComparisonPivotsByYear ==
  (rendered # NotRendered /\ \E i \in DOMAIN chart : CarriesArea(chart[i])) =>
    LET rows == rendered.chartData
        years == {Get(chart[i], "year") : i \in DOMAIN chart}
    IN /\ rendered.mode = "comparison"
       /\ Len(rows) = Cardinality(years)
       /\ \A j \in 1..(Len(rows) - 1) : rows[j]["year"].n < rows[j + 1]["year"].n
       /\ \A j \in DOMAIN rows :
            LET y == rows[j]["year"]
                named == {a \in {Str(x) : x \in Areas} : RowsOf(y, a) # {}}
            IN /\ y \in years
               /\ DOMAIN rows[j] = {"year"} \cup {a.s : a \in named}
               /\ \A a \in named :
                    rows[j][a.s] \in {Get(chart[i], PriceField) : i \in RowsOf(y, a)}

\* The first numeric field of a record that is not the year field.
FirstNumericFieldNotYear(d) ==
  LET hits == {i \in DOMAIN d : d[i][2].t = "number" /\ d[i][1] # "year"}
  IN IF hits = {} THEN Undefined
     ELSE d[CHOOSE i \in hits : \A j \in hits : i <= j][2]

\* C10: for a non-empty chart list in which no record carries an area,
\* single-series mode is selected and the output is one {year, price} pair
\* per record, in input order, the price being the computed-price field when
\* present and non-null and otherwise the first numeric field that is not the
\* year field, whatever its value.
SingleSeriesPicksByField ==
  (rendered # NotRendered /\ \A i \in DOMAIN chart : ~CarriesArea(chart[i])) =>
    /\ rendered.mode = "single"
    /\ Len(rendered.chartData) = Len(chart)
    /\ \A i \in DOMAIN chart :
         LET d == chart[i]
             price == IF Has(d, PriceField) /\ Get(d, PriceField) # JsNull
                        THEN Get(d, PriceField)
                        ELSE FirstNumericFieldNotYear(d)
         IN rendered.chartData[i] = ("year" :> Get(d, "year")) @@ ("price" :> price)

-----------------------------------------------------------------------------
(* The table *)

WhitelistIndex(k) == CHOOSE i \in DOMAIN Whitelist : Whitelist[i] = k

\* The header texts the whitelist's columns are to show.
ExpectedHeader(k) ==
  IF k = FinalLocationKey
    THEN <<"F","I","N","A","L"," ","L","O","C","A","T","I","O","N">>
  ELSE IF k = YearKey THEN <<"Y","E","A","R">>
  ELSE IF k = CityKey THEN <<"C","I","T","Y">>
  ELSE <<"P","R","I","C","E"," ","C","O","M","P","U","T","E","D">>

\* C11: for a non-empty table list the columns are exactly the whitelist keys
\* present in the first record, in whitelist order, whatever keys later
\* records have; every record gives one row with one cell per column, a null
\* or missing value showing as the empty string; each header is the key with
\* the double underscores stripped, single underscores turned into spaces,
\* upper-cased ('__price_computed__' shows as 'PRICE COMPUTED').
TableProjectsWhitelist ==
  tableDone =>
    LET keys == table.keys IN
    /\ {keys[c] : c \in DOMAIN keys}
         = {Whitelist[i] : i \in {j \in DOMAIN Whitelist : Has(tableRows[1], Whitelist[j])}}
    /\ \A c, e \in DOMAIN keys :
         c < e => WhitelistIndex(keys[c]) < WhitelistIndex(keys[e])
    /\ Len(table.headers) = Len(keys)
    /\ \A c \in DOMAIN keys : table.headers[c] = ExpectedHeader(keys[c])
    /\ Len(table.body) = Len(tableRows)
    /\ \A r \in DOMAIN tableRows :
         /\ Len(table.body[r]) = Len(keys)
         /\ \A c \in DOMAIN keys :
              LET v == Get(tableRows[r], keys[c]) IN
              table.body[r][c] =
                IF ~Has(tableRows[r], keys[c]) \/ v = JsNull THEN ""
                ELSE IF v.t = "number" THEN ToString(v.n) ELSE v.s

\* Four columns from the first record; a later record lacks one of them, has
\* a null in another and carries a column outside the whitelist.
TableWithRaggedRows ==
  /\ tableDone
  /\ Len(tableRows) = 2
  /\ table.keys = Whitelist
  /\ table.headers[4] = <<"P","R","I","C","E"," ","C","O","M","P","U","T","E","D">>
  /\ ~Has(tableRows[2], YearKey)
  /\ Get(tableRows[2], CityKey) = JsNull
  /\ Has(tableRows[2], AreaKey)
  /\ table.body[2] = <<"Wakad", "", "", "5000">>

====
